---- MODULE Spec2Model ----
(***************************************************************************)
(* Model of the two scripts of the ASL workflow:                           *)
(*   extract_frames.py        video -> sampled frames under trainingdata/  *)
(*   train_improved_model.py  trainingdata/ -> fine_tuned_model.tflite     *)
(* The file system, the video decoder and the deep-learning library are    *)
(* the environment: the file system is state, the decoder and the library  *)
(* answer nondeterministically.                                            *)
(***************************************************************************)
EXTENDS Integers, Sequences, FiniteSets, TLC

\* ---------------------------------------------------------------- bounds
\* cap.read() delivers at most MaxFrames frames of one video
MaxFrames == 11
\* a sign folder under Videos/ lists at most MaxVideos files
MaxVideos == 2
\* an output folder may already hold img_0001 .. img_<MaxExisting>
MaxExisting == 2

\* ------------------------------------------------- program constants
FRAME_INTERVAL == 5
IMAGE_SIZE == 224
VIDEO_EXTENSIONS == <<".mp4", ".avi", ".mov", ".mkv", ".MP4", ".AVI", ".MOV">>

\* ------------------------------------------------- sample environment
NoDir == [exists |-> FALSE, files |-> {}]
Signs == {"A", "B"}
\* the order sorted() gives the sign folders
SignOrder == <<"A", "B">>

VARIABLES
    \* ---- file system
    videoFs,        \* Videos/: [exists, flat, dirs], a sign folder [exists, files]
    out,            \* trainingdata/: [exists, dirs], a sign folder [exists, files]
    out0,           \* trainingdata/ as it was when the script started
    \* ---- extract_frames.py
    pc,
    letter_queue,   \* what is left of sorted(letter_folders)
    sign_name,
    video_files,    \* positions (in the folder listing) of the matched videos
    video_queue,    \* what is left of video_files
    video_path,     \* the video being processed
    existing_count,
    frames_for_letter,
    frame_count,
    saved_count,
    total_frames,
    total_videos,
    \* ---- observations of the run
    written,        \* per sign, the file names passed to cv2.imwrite, in order
    savedIdx,       \* decode indices of the frames saved from the current video
    totalPrinted,   \* per sign, the number printed as "Total images now"
    \* ---- train_improved_model.py
    tpc,
    modelFile,      \* fine_tuned_model.tflite: [exists, bytes]
    modelFile0,
    assets,         \* assets/: [exists, model], model.tflite [exists, bytes]
    assets0,
    tflite_model,   \* bytes returned by converter.convert()
    copyResult      \* how shutil.copy ended: "none" (not called), "ok", "raised"

exVars == <<videoFs, out, out0, pc, letter_queue, sign_name, video_files,
            video_queue, video_path, existing_count, frames_for_letter,
            frame_count, saved_count, total_frames, total_videos, written,
            savedIdx, totalPrinted>>
trVars == <<tpc, modelFile, modelFile0, assets, assets0, tflite_model,
            copyResult>>
vars == <<exVars, trVars>>

\* ------------------------------------------------------------ helpers
RECURSIVE Digits(_)
Digits(n) == IF n < 10 THEN <<n>> ELSE Digits(n \div 10) \o <<n % 10>>

RECURSIVE ZeroPad(_, _)
ZeroPad(d, w) == IF Len(d) >= w THEN d ELSE ZeroPad(<<0>> \o d, w)

\* f"{n:04d}"
Format04d(n) == ZeroPad(Digits(n), 4)

\* f"img_{n:04d}.jpg"
FileName(n) == [prefix |-> "img_", digits |-> Format04d(n), ext |-> ".jpg"]

\* the numbering restarts with every video of the sign
ImgNumberPerVideo(ec, ffl, sc) == ec + sc + 1

\* existing_count + frames_for_letter + saved_count + 1
ImgNumber(ec, ffl, sc) == ec + ffl + sc + 1

img_filename == FileName(ImgNumber(existing_count, frames_for_letter, saved_count))

\* the stride counted from 1: every 5th frame, the first one not among them
ShouldSaveFromOne(fc) == (fc + 1) % FRAME_INTERVAL = 0

\* frame_count % FRAME_INTERVAL == 0
ShouldSave(fc) == fc % FRAME_INTERVAL = 0

\* Path(dir).glob("*.jpg"): a directory holds entries [name, content]
GlobJpg(dir) == {e \in dir.files : e.name.ext = ".jpg"}

\* letter_folder.glob(f"*{ext}"): positions of the listing with that extension
RECURSIVE GlobExt(_, _, _)
GlobExt(listing, ext, i) ==
    IF i > Len(listing) THEN <<>>
    ELSE (IF listing[i] = ext THEN <<i>> ELSE <<>>) \o GlobExt(listing, ext, i + 1)

\* video_files after the loop over VIDEO_EXTENSIONS
RECURSIVE FindVideos(_, _)
FindVideos(listing, k) ==
    IF k > Len(VIDEO_EXTENSIONS) THEN <<>>
    ELSE GlobExt(listing, VIDEO_EXTENSIONS[k], 1) \o FindVideos(listing, k + 1)

\* [f for f in Path(VIDEO_FOLDER).iterdir() if f.is_dir()], then sorted()
LetterFolders(fs) == SelectSeq(SignOrder, LAMBDA s : fs.dirs[s].exists)

\* os.makedirs(OUTPUT_FOLDER, exist_ok=True)
MakeOutputFolder(o) == [o EXCEPT !.exists = TRUE]

\* os.makedirs(output_dir, exist_ok=True)
MakeSignFolder(o, s) == [o EXCEPT !.dirs[s].exists = TRUE]

\* cv2.imwrite(img_path, resized): creates the file or replaces its content
ImWrite(dir, name, content) ==
    [dir EXCEPT !.files = {e \in @ : e.name # name}
                          \cup {[name |-> name, content |-> content]}]

\* ------------------------------------------------------- initial states
\* up to MaxVideos files: .mp4 videos, the last one possibly a file whose
\* extension (".MKV") is on no list
Listings == {[i \in 1..k |-> IF i = k THEN last ELSE ".mp4"] :
                k \in 0..MaxVideos, last \in {".mp4", ".MKV"}}

LetterDirs == {[exists |-> FALSE, files |-> <<>>]}
              \cup [exists : {TRUE}, files : Listings]

\* content of a file that was there before the run
OldContent == [frame |-> -1, size |-> 0]

PreNames == {FileName(i) : i \in 1..MaxExisting}

PreDirs == {NoDir} \cup
    {[exists |-> TRUE, files |-> {[name |-> n, content |-> OldContent] : n \in S}] :
        S \in SUBSET PreNames}

NoLetterDirs == [s \in Signs |-> [exists |-> FALSE, files |-> <<>>]]

\* Videos/ is missing; or holds A.mp4, B.mp4 as the usage text has it; or
\* holds sign folders
VideoTrees ==
    {[exists |-> FALSE, flat |-> {}, dirs |-> NoLetterDirs],
     [exists |-> TRUE, flat |-> Signs, dirs |-> NoLetterDirs]}
    \cup [exists : {TRUE}, flat : {{}}, dirs : [Signs -> LetterDirs]]

\* trainingdata/ is missing, or every sign's folder is in the same condition d
\* (the sign folders do not interact, and each meets every d)
OutTrees == {[exists |-> FALSE, dirs |-> [s \in Signs |-> NoDir]]}
            \cup {[exists |-> TRUE, dirs |-> [s \in Signs |-> d]] : d \in PreDirs}

NoFile == [exists |-> FALSE, bytes |-> <<>>]
\* a model file left by an earlier run
OldFile == [exists |-> TRUE, bytes |-> <<9>>]
\* what converter.convert() may return
ModelBytes == {<<1>>, <<1, 2>>}

AssetsDirs == {[exists |-> FALSE, model |-> NoFile],
               [exists |-> TRUE, model |-> NoFile],
               [exists |-> TRUE, model |-> OldFile]}

TrainerIdle ==
    /\ tpc = "idle"
    /\ modelFile = NoFile
    /\ modelFile0 = modelFile
    /\ assets = [exists |-> FALSE, model |-> NoFile]
    /\ assets0 = assets
    /\ tflite_model = <<>>
    /\ copyResult = "none"

ExtractorVarsInit ==
    /\ letter_queue = <<>>
    /\ sign_name = "none"
    /\ video_files = <<>>
    /\ video_queue = <<>>
    /\ video_path = 0
    /\ existing_count = 0
    /\ frames_for_letter = 0
    /\ frame_count = 0
    /\ saved_count = 0
    /\ total_frames = 0
    /\ total_videos = 0
    /\ written = [s \in Signs |-> <<>>]
    /\ savedIdx = <<>>
    /\ totalPrinted = [s \in Signs |-> -1]

ExtractorAt(p) ==
    /\ pc = p
    /\ ExtractorVarsInit

Init ==
    /\ videoFs \in VideoTrees
    /\ out \in OutTrees
    /\ out0 = out
    /\ ExtractorAt("start")
    /\ TrainerIdle

\* ------------------------------------------------- extract_frames.py
\* lines 26-37: the video folder is missing
VideoFolderMissing ==
    /\ pc = "start"
    /\ ~videoFs.exists
    /\ pc' = "exit1"
    /\ UNCHANGED <<videoFs, out, out0, letter_queue, sign_name, video_files,
                   video_queue, video_path, existing_count, frames_for_letter,
                   frame_count, saved_count, total_frames, total_videos,
                   written, savedIdx, totalPrinted>>
    /\ UNCHANGED trVars

\* lines 26-53: the output folder is made, then no sign folder is found
NoLetterFolders ==
    /\ pc = "start"
    /\ videoFs.exists
    /\ LetterFolders(videoFs) = <<>>
    /\ out' = MakeOutputFolder(out)
    /\ pc' = "exit1"
    /\ UNCHANGED <<videoFs, out0, letter_queue, sign_name, video_files,
                   video_queue, video_path, existing_count, frames_for_letter,
                   frame_count, saved_count, total_frames, total_videos,
                   written, savedIdx, totalPrinted>>
    /\ UNCHANGED trVars

\* lines 26-59: the output folder is made and the sign folders are found
FoundLetterFolders ==
    /\ pc = "start"
    /\ videoFs.exists
    /\ LetterFolders(videoFs) # <<>>
    /\ out' = MakeOutputFolder(out)
    /\ letter_queue' = LetterFolders(videoFs)
    /\ total_frames' = 0
    /\ total_videos' = 0
    /\ pc' = "letters"
    /\ UNCHANGED <<videoFs, out0, sign_name, video_files, video_queue,
                   video_path, existing_count, frames_for_letter, frame_count,
                   saved_count, written, savedIdx, totalPrinted>>
    /\ UNCHANGED trVars

\* lines 61-71: a sign folder without videos is skipped
SkipLetter ==
    /\ pc = "letters"
    /\ letter_queue # <<>>
    /\ FindVideos(videoFs.dirs[Head(letter_queue)].files, 1) = <<>>
    /\ sign_name' = Head(letter_queue)
    /\ video_files' = <<>>
    /\ letter_queue' = Tail(letter_queue)
    /\ UNCHANGED <<videoFs, out, out0, pc, video_queue, video_path,
                   existing_count, frames_for_letter, frame_count, saved_count,
                   total_frames, total_videos, written, savedIdx, totalPrinted>>
    /\ UNCHANGED trVars

\* lines 61-82: a sign folder with videos is entered
StartLetter ==
    /\ pc = "letters"
    /\ letter_queue # <<>>
    /\ FindVideos(videoFs.dirs[Head(letter_queue)].files, 1) # <<>>
    /\ sign_name' = Head(letter_queue)
    /\ letter_queue' = Tail(letter_queue)
    /\ video_files' = FindVideos(videoFs.dirs[Head(letter_queue)].files, 1)
    /\ video_queue' = video_files'
    /\ out' = MakeSignFolder(out, Head(letter_queue))
    /\ existing_count' = Cardinality(GlobJpg(out'.dirs[Head(letter_queue)]))
    /\ frames_for_letter' = 0
    /\ pc' = "videos"
    /\ UNCHANGED <<videoFs, out0, video_path, frame_count, saved_count,
                   total_frames, total_videos, written, savedIdx, totalPrinted>>
    /\ UNCHANGED trVars

\* lines 84-92: the video cannot be opened
OpenFails ==
    /\ pc = "videos"
    /\ video_queue # <<>>
    /\ video_path' = Head(video_queue)
    /\ video_queue' = Tail(video_queue)
    /\ UNCHANGED <<videoFs, out, out0, pc, letter_queue, sign_name,
                   video_files, existing_count, frames_for_letter, frame_count,
                   saved_count, total_frames, total_videos, written, savedIdx,
                   totalPrinted>>
    /\ UNCHANGED trVars

\* lines 84-95: the video is opened
OpenVideo ==
    /\ pc = "videos"
    /\ video_queue # <<>>
    /\ video_path' = Head(video_queue)
    /\ video_queue' = Tail(video_queue)
    /\ frame_count' = 0
    /\ saved_count' = 0
    /\ savedIdx' = <<>>
    /\ pc' = "read"
    /\ UNCHANGED <<videoFs, out, out0, letter_queue, sign_name, video_files,
                   existing_count, frames_for_letter, total_frames,
                   total_videos, written, totalPrinted>>
    /\ UNCHANGED trVars

\* lines 97-116: a frame is decoded and is one to save
ReadAndSave ==
    /\ pc = "read"
    /\ frame_count < MaxFrames
    /\ ShouldSave(frame_count)
    /\ out' = [out EXCEPT !.dirs[sign_name] =
                 ImWrite(@, img_filename,
                         [frame |-> frame_count, size |-> IMAGE_SIZE])]
    /\ written' = [written EXCEPT ![sign_name] = Append(@, img_filename)]
    /\ savedIdx' = Append(savedIdx, frame_count)
    /\ saved_count' = saved_count + 1
    /\ frame_count' = frame_count + 1
    /\ UNCHANGED <<videoFs, out0, pc, letter_queue, sign_name, video_files,
                   video_queue, video_path, existing_count, frames_for_letter,
                   total_frames, total_videos, totalPrinted>>
    /\ UNCHANGED trVars

\* lines 97-116: a frame is decoded and is passed over
ReadAndSkip ==
    /\ pc = "read"
    /\ frame_count < MaxFrames
    /\ ~ShouldSave(frame_count)
    /\ frame_count' = frame_count + 1
    /\ UNCHANGED <<videoFs, out, out0, pc, letter_queue, sign_name,
                   video_files, video_queue, video_path, existing_count,
                   frames_for_letter, saved_count, total_frames, total_videos,
                   written, savedIdx, totalPrinted>>
    /\ UNCHANGED trVars

\* lines 98-101, 118-122: no frame is left
EndOfVideo ==
    /\ pc = "read"
    /\ frames_for_letter' = frames_for_letter + saved_count
    /\ total_videos' = total_videos + 1
    /\ pc' = "videos"
    /\ UNCHANGED <<videoFs, out, out0, letter_queue, sign_name, video_files,
                   video_queue, video_path, existing_count, frame_count,
                   saved_count, total_frames, written, savedIdx, totalPrinted>>
    /\ UNCHANGED trVars

\* lines 124-127: the sign's videos are done
EndOfLetter ==
    /\ pc = "videos"
    /\ video_queue = <<>>
    /\ total_frames' = total_frames + frames_for_letter
    /\ totalPrinted' = [totalPrinted EXCEPT
                          ![sign_name] = existing_count + frames_for_letter]
    /\ pc' = "letters"
    /\ UNCHANGED <<videoFs, out, out0, letter_queue, sign_name, video_files,
                   video_queue, video_path, existing_count, frames_for_letter,
                   frame_count, saved_count, total_videos, written, savedIdx>>
    /\ UNCHANGED trVars

\* lines 129-142
ExtractionComplete ==
    /\ pc = "letters"
    /\ letter_queue = <<>>
    /\ pc' = "complete"
    /\ UNCHANGED <<videoFs, out, out0, letter_queue, sign_name, video_files,
                   video_queue, video_path, existing_count, frames_for_letter,
                   frame_count, saved_count, total_frames, total_videos,
                   written, savedIdx, totalPrinted>>
    /\ UNCHANGED trVars

Next ==
    \/ VideoFolderMissing
    \/ NoLetterFolders
    \/ FoundLetterFolders
    \/ SkipLetter
    \/ StartLetter
    \/ OpenFails
    \/ OpenVideo
    \/ ReadAndSave
    \/ ReadAndSkip
    \/ EndOfVideo
    \/ EndOfLetter
    \/ ExtractionComplete

Spec == Init /\ [][Next]_vars

\* ------------------------------------------- train_improved_model.py
\* flow_from_directory finds at least one image under trainingdata/
HasImages(o) == \E s \in Signs : o.dirs[s].exists /\ o.dirs[s].files # {}

TrainInit ==
    /\ videoFs = [exists |-> FALSE, flat |-> {}, dirs |-> NoLetterDirs]
    /\ out \in OutTrees
    /\ out0 = out
    /\ ExtractorAt("idle")
    /\ tpc = "start"
    /\ modelFile \in {NoFile, OldFile}
    /\ modelFile0 = modelFile
    /\ assets \in AssetsDirs
    /\ assets0 = assets
    /\ tflite_model = <<>>
    /\ copyResult = "none"

\* lines 28-31: the training data folder is missing
TrainingDataMissing ==
    /\ tpc = "start"
    /\ ~out.exists
    /\ tpc' = "exit1"
    /\ UNCHANGED <<modelFile, modelFile0, assets, assets0, tflite_model,
                   copyResult>>
    /\ UNCHANGED exVars

\* lines 33-144: the library raises while loading, building or fitting
\* (always when there is no image to train on)
TrainingRaises ==
    /\ tpc = "start"
    /\ out.exists
    /\ tpc' = "crashed"
    /\ UNCHANGED <<modelFile, modelFile0, assets, assets0, tflite_model,
                   copyResult>>
    /\ UNCHANGED exVars

\* lines 33-144: the model is trained
TrainingCompletes ==
    /\ tpc = "start"
    /\ out.exists
    /\ HasImages(out)
    /\ tpc' = "trained"
    /\ UNCHANGED <<modelFile, modelFile0, assets, assets0, tflite_model,
                   copyResult>>
    /\ UNCHANGED exVars

\* lines 146-150: conversion to TFLite
Convert ==
    /\ tpc = "trained"
    /\ tflite_model' \in ModelBytes
    /\ tpc' = "converted"
    /\ UNCHANGED <<modelFile, modelFile0, assets, assets0, copyResult>>
    /\ UNCHANGED exVars

\* lines 152-153: open(output_file, 'wb') creates or truncates the file
OpenOutput ==
    /\ tpc = "converted"
    /\ modelFile' = [exists |-> TRUE, bytes |-> <<>>]
    /\ tpc' = "opened"
    /\ UNCHANGED <<modelFile0, assets, assets0, tflite_model, copyResult>>
    /\ UNCHANGED exVars

\* lines 154-157: f.write(tflite_model), and the with block closes the file
WriteOutput ==
    /\ tpc = "opened"
    /\ modelFile' = [exists |-> TRUE, bytes |-> tflite_model]
    /\ tpc' = "saved"
    /\ UNCHANGED <<modelFile0, assets, assets0, tflite_model, copyResult>>
    /\ UNCHANGED exVars

\* lines 160-163, 167-177: the copy succeeds
DeployOk ==
    /\ tpc = "saved"
    /\ assets.exists
    /\ assets' = [assets EXCEPT !.model = modelFile]
    /\ copyResult' = "ok"
    /\ tpc' = "success"
    /\ UNCHANGED <<modelFile, modelFile0, assets0, tflite_model>>
    /\ UNCHANGED exVars

\* the copy raises and nothing catches it
DeployFailsUncaught ==
    /\ tpc = "saved"
    /\ \E dst \in (IF assets.exists
                   THEN {assets.model, [exists |-> TRUE, bytes |-> <<>>]}
                   ELSE {NoFile}) :
           assets' = [assets EXCEPT !.model = dst]
    /\ copyResult' = "raised"
    /\ tpc' = "crashed"
    /\ UNCHANGED <<modelFile, modelFile0, assets0, tflite_model>>
    /\ UNCHANGED exVars

\* lines 160-162, 164-177: the copy raises (always when assets/ is missing;
\* it may leave a truncated target), the exception is caught
DeployFails ==
    /\ tpc = "saved"
    /\ \E dst \in (IF assets.exists
                   THEN {assets.model, [exists |-> TRUE, bytes |-> <<>>]}
                   ELSE {NoFile}) :
           assets' = [assets EXCEPT !.model = dst]
    /\ copyResult' = "raised"
    /\ tpc' = "success"
    /\ UNCHANGED <<modelFile, modelFile0, assets0, tflite_model>>
    /\ UNCHANGED exVars

TrainNext ==
    \/ TrainingDataMissing
    \/ TrainingRaises
    \/ TrainingCompletes
    \/ Convert
    \/ OpenOutput
    \/ WriteOutput
    \/ DeployOk
    \/ DeployFails

TrainSpec == TrainInit /\ [][TrainNext]_vars

\* ============================================================== claims
\* the number the first k digits of a digit string denote
RECURSIVE Value(_, _)
Value(d, k) == IF k = 0 THEN 0 ELSE 10 * Value(d, k - 1) + d[k]

\* the decode indices below n that are multiples of the stride, in order
Strided(n) ==
    [i \in 1..((n + FRAME_INTERVAL - 1) \div FRAME_INTERVAL) |-> FRAME_INTERVAL * (i - 1)]

\* d is n in decimal, zero-padded to 4 digits
IsPadded4(d, n) ==
    /\ Len(d) >= 4
    /\ \A i \in 1..Len(d) : d[i] \in 0..9
    /\ Value(d, Len(d)) = n
    /\ Len(d) > 4 => d[1] # 0

\* the .jpg files the sign's output folder held before the run
ExistingBefore(s) == Cardinality(GlobJpg(out0.dirs[s]))

\* C1: of a video that has decoded N = frame_count frames, exactly the frames
\* whose 0-based index is a multiple of FRAME_INTERVAL were saved, in decode
\* order: ceil(N/5) of them, the first decoded frame among them; while the
\* video is being read, these frames are the contents of the last saved_count
\* files written.
C1_FixedStride ==
    /\ savedIdx = Strided(frame_count)
    /\ saved_count = Len(savedIdx)
    /\ saved_count = (frame_count + 4) \div 5
    /\ frame_count >= 1 => savedIdx[1] = 0
    /\ pc = "read" =>
         LET w == written[sign_name] IN
         /\ Len(w) >= saved_count
         /\ \A i \in 1..saved_count :
              [name |-> w[Len(w) - saved_count + i],
               content |-> [frame |-> savedIdx[i], size |-> IMAGE_SIZE]]
                  \in out.dirs[sign_name].files

\* a video of 11 frames has ended with frames 0, 5 and 10 saved
C1_Witness ==
    /\ pc = "videos"
    /\ total_videos >= 1
    /\ frame_count = 11
    /\ savedIdx = <<0, 5, 10>>

\* C2: the files a sign's videos are written to are img_<n>.jpg with n =
\* existing+1, existing+2, ... without gap or repetition, n zero-padded to 4
\* digits, existing being the number of .jpg files the sign's folder held
\* before; between videos there are frames_for_letter of them.
C2_SequentialNaming ==
    /\ \A s \in Signs :
         LET w == written[s]
             existing == ExistingBefore(s)
         IN
         /\ \A i \in 1..Len(w) :
              /\ w[i].prefix = "img_"
              /\ w[i].ext = ".jpg"
              /\ IsPadded4(w[i].digits, existing + i)
              /\ \A j \in (i + 1)..Len(w) : w[i] # w[j]
         /\ totalPrinted[s] # -1 => Len(w) = totalPrinted[s] - existing
    /\ pc = "videos" => Len(written[sign_name]) = frames_for_letter
    /\ pc = "read" => Len(written[sign_name]) = frames_for_letter + saved_count

\* sign B held 2 images and two of its videos added 4: img_0003 .. img_0006
C2_Witness ==
    /\ ExistingBefore("B") = 2
    /\ totalPrinted["B"] = 6
    /\ Len(written["B"]) = 4
    /\ total_videos >= 2
    /\ written["B"][4].digits = <<0, 0, 0, 6>>

\* C3: once a sign folder is processed, the number printed as "Total images
\* now" is the number of .jpg files in the sign's output folder, and no .jpg
\* file that was there before the run has been overwritten.
C3_TotalAccurate ==
    \A s \in Signs :
        totalPrinted[s] # -1 =>
            /\ totalPrinted[s] = Cardinality(GlobJpg(out.dirs[s]))
            /\ GlobJpg(out0.dirs[s]) \subseteq out.dirs[s].files

\* the layout of the usage text: the videos, named per sign, directly in the
\* video folder
UsageLayout ==
    /\ videoFs.exists
    /\ videoFs.flat = Signs
    /\ \A s \in Signs : ~videoFs.dirs[s].exists

\* C4: with the videos laid out as the usage text says, the run ends with
\* "EXTRACTION COMPLETE" and not with an error exit.
C4_UsageLayoutCompletes ==
    (UsageLayout /\ pc \in {"exit1", "complete"}) => pc = "complete"

\* C5: an error exit (status 1) leaves the file system as it was: no output
\* folder is created, no frame is written.
C5_ErrorExitChangesNothing ==
    pc = "exit1" => out = out0

\* C6: when deployment is attempted fine_tuned_model.tflite holds the whole
\* converted model; a copy that raises leaves the script at SUCCESS with that
\* file intact; a missing training-data folder ends the script with status 1
\* (and only that does) with no model file written.
C6_ExportThenDeploy ==
    /\ tpc = "saved" =>
         /\ tflite_model \in ModelBytes
         /\ modelFile = [exists |-> TRUE, bytes |-> tflite_model]
    /\ copyResult # "none" =>
         /\ tpc = "success"
         /\ modelFile = [exists |-> TRUE, bytes |-> tflite_model]
    /\ tpc = "success" => copyResult # "none"
    /\ tpc = "exit1" =>
         /\ ~out.exists
         /\ modelFile = modelFile0
         /\ assets = assets0
    /\ ~out.exists => tpc \in {"start", "exit1"}

\* assets/ is missing, the copy raised, and the script is at SUCCESS with the
\* new model in place of an older one
C6_Witness ==
    /\ copyResult = "raised"
    /\ ~assets.exists
    /\ tpc = "success"
    /\ modelFile0 = OldFile
    /\ modelFile = [exists |-> TRUE, bytes |-> <<1, 2>>]
====
